---- MODULE Spec2Model ----
(***************************************************************************)
(* The HeyGen proxy of PodGen-AI: the three request handlers (the Vercel   *)
(* handler taking an audio URL, the Vercel handler staging the audio in    *)
(* Vercel Blob, the Supabase edge function) and the pollVideoStatus loop   *)
(* they share.  One invocation of one handler is modelled; every network   *)
(* call (put, avatar/from_image, video/generate, video_status.get, del)    *)
(* is one step whose outcome is chosen by the environment.                 *)
(*                                                                         *)
(* Strings built by template literals are kept as tuples <<prefix, text>>. *)
(* Provider bodies follow the JSON shapes the handlers read; the optional  *)
(* fields the code guards with || (message, statusText, error.message)     *)
(* may be empty.                                                           *)
(***************************************************************************)
EXTENDS Integers, Sequences, FiniteSets, TLC

\* src/api/heygen-proxy.ts:179, src/unnamed/part_001:40
maxAttempts == 30
\* config.maxDuration, in seconds: src/api/heygen-proxy.ts:168
maxDuration == 300
\* setTimeout(resolve, 10000): src/api/heygen-proxy.ts:205
pollIntervalMs == 10000

(***************************************************************************)
(* Inputs                                                                  *)
(***************************************************************************)
Variants == {"url", "blob", "supabase"}
Methods == {"POST", "OPTIONS", "GET", "PUT"}
Images == {"", "IMG64"}
AudioUrls == {"", "https://pub/a.wav", "blob:local/a"}
AudioB64s == {"", "QVVE"}
Keys == {"", "KEY"}
BlobUrls == {"https://store/ex1.wav", "https://store/ex2.wav"}
AvatarIds == {"avatar_42", "avatar_43"}
VideoIds == {"job_7", "job_8"}
VideoUrls == {"https://cdn/out.mp4", "https://cdn/out2.mp4"}
ErrTexts == {"invalid image", "rate limited"}
\* "" is a body without a status field, "waiting" a value the code does not name.
PendingStatuses == {"processing", "pending", "waiting", ""}

Requests ==
    [method : Methods, wellFormed : BOOLEAN, imageBase64 : Images,
     audioUrl : AudioUrls, audioBase64 : AudioB64s, apiKey : Keys]

Envs == [HEYGEN_API_KEY : Keys, BLOB_READ_WRITE_TOKEN : Keys]

\* The bodies video_status.get can answer with.
StatusResponses ==
    [ok : {FALSE}, status : {""}, video_url : {""}, errorMessage : {""},
     message : {"", "quota exceeded"}, statusText : {"Bad Gateway"}]
    \cup [ok : {TRUE}, status : {"succeeded"}, video_url : VideoUrls,
          errorMessage : {""}, message : {""}, statusText : {"OK"}]
    \cup [ok : {TRUE}, status : {"failed"}, video_url : {""},
          errorMessage : {"", "render error"}, message : {""}, statusText : {"OK"}]
    \cup [ok : {TRUE}, status : PendingStatuses, video_url : {""},
          errorMessage : {""}, message : {""}, statusText : {"OK"}]

NoStatusResponse ==
    [ok |-> TRUE, status |-> "none", video_url |-> "", errorMessage |-> "",
     message |-> "", statusText |-> ""]

(***************************************************************************)
(* State                                                                   *)
(***************************************************************************)
VARIABLES
    variant,        \* which handler runs
    req,            \* the inbound request
    env,            \* process.env of the function
    pc,             \* position of the handler
    publicAudioUrl, \* blob handler's publicAudioUrl
    avatarId,       \* avatarData.data.avatar_id
    videoId,        \* videoGenData.data.video_id
    attempt,        \* pollVideoStatus: attempt
    status,         \* pollVideoStatus: status
    videoUrl,       \* pollVideoStatus: videoUrl
    lastResp,       \* the last video_status.get response
    pollResult,     \* how the call of pollVideoStatus completed
    sleeps,         \* number of 10 s waits completed
    calls,          \* the network calls issued, in order
    logs,           \* console.error lines
    store,          \* the objects Vercel Blob holds, by URL
    result,         \* the Response the try/catch block returned
    response,       \* the Response delivered to the caller
    failed,         \* the step the provider or the store refused, and its text
    app,            \* the browser client: App's state and generateHeyGenVideo
    now,            \* Date.now() of the function platform
    inv,            \* concurrent invocations of the blob handler
    randomSuffix    \* whether the Blob store adds a random suffix to a name

vars == <<variant, req, env, pc, publicAudioUrl, avatarId, videoId, attempt,
          status, videoUrl, lastResp, pollResult, sleeps, calls, logs,
          store, result, response, failed, app, now, inv, randomSuffix>>

(***************************************************************************)
(* Values                                                                  *)
(***************************************************************************)
NoResponse == [status |-> 0, kind |-> "none", body |-> <<>>]
OkText == [status |-> 200, kind |-> "text", body |-> <<"ok">>]
VideoResponse(url) == [status |-> 200, kind |-> "video", body |-> <<url>>]
ErrorResponse(code, msg) == [status |-> code, kind |-> "error", body |-> msg]
\* The handler's promise rejects: no Response, the platform answers.
Uncaught(msg) == [status |-> 0, kind |-> "uncaught", body |-> msg]

NoPoll == [kind |-> "none", value |-> <<>>]
Returned(url) == [kind |-> "returned", value |-> <<url>>]
Threw(msg) == [kind |-> "threw", value |-> msg]

\* a || b on strings
OrElse(a, b) == IF a # "" THEN a ELSE b

\* Buffer.from(audioBase64, 'base64')
BufferFrom(b64) == IF b64 = "QVVE" THEN "AUD" ELSE "?"

MethodNotAllowed == <<"Method not allowed">>
KeyNotConfigured == <<"HeyGen API key is not configured">>
BlobNotConfigured == <<"Vercel Blob storage is not configured">>
MissingInput == <<"Missing imageBase64 or audio">>
BodyParseError == <<"SyntaxError">>
UploadError(text) == <<"BlobError: ", text>>
AvatarErrorWithoutText(text) == <<"HeyGen avatar creation failed: ", "">>
AvatarError(text) == <<"HeyGen avatar creation failed: ", text>>
VideoGenError(text) == <<"HeyGen video generation failed: ", text>>
StatusCheckError(r) ==
    <<"HeyGen status check failed: ", OrElse(r.message, r.statusText)>>
JobFailedError(r) ==
    <<"HeyGen video generation failed: ", OrElse(r.errorMessage, "Unknown error")>>
TimeoutError == <<"HeyGen video generation timed out.">>

NCalls(kind) == Cardinality({i \in DOMAIN calls : calls[i][1] = kind})

\* useState<number>(10.0): credits and costs are counted in hundredths of a
\* credit.
InitialCredits == 1000

\* App before any generation: useState's initial values.
AppIdle ==
    [phase |-> "idle", isGenerating |-> FALSE, generationProgress |-> 0,
     generationMessage |-> "", resultVideoUrl |-> "", generatedAudioUrl |-> "",
     progress |-> 0, ticker |-> FALSE, thrown |-> <<>>, fetch |-> "none",
     videoEngine |-> "HEYGEN", msgIndex |-> 0,
     credits |-> InitialCredits, estimatedCost |-> 0, audioDuration |-> 0,
     cost |-> 0, history |-> <<>>, generation |-> 0,
     isBuyCreditsModalOpen |-> FALSE]

(***************************************************************************)
(* Decisions of the handlers                                               *)
(***************************************************************************)
\* req.json(): a GET request carries no body, and a body may not be JSON.
BodyParses(r) == r.method # "GET" /\ r.wellFormed

\* The provider key: process.env.HEYGEN_API_KEY on Vercel, the body's apiKey
\* on Supabase.
ApiKeyOf(v, r, e) == IF v = "supabase" THEN r.apiKey ELSE e.HEYGEN_API_KEY

\* if (!imageBase64 || !audioUrl) / (!audioBase64) / (|| !apiKey)
MissingFieldsImageOnly(v, r) == r.imageBase64 = ""
MissingFields(v, r) ==
    CASE v = "url" -> r.imageBase64 = "" \/ r.audioUrl = ""
      [] v = "blob" -> r.imageBase64 = "" \/ r.audioBase64 = ""
      [] v = "supabase" -> r.imageBase64 = "" \/ r.audioUrl = "" \/ r.apiKey = ""

\* if (req.method === 'OPTIONS'), the first statement of every handler
IsPreflightAfterBody(r) == r.method = "OPTIONS" /\ BodyParses(r)
IsPreflight(r) == r.method = "OPTIONS"

\* The first network call of the pipeline: Step 0 in the blob handler, Step 1
\* in the others.
FirstStepSkipsUpload(v) == "avatar"
FirstStep(v) == IF v = "blob" THEN "upload" ELSE "avatar"

\* Everything a handler does before its first network call.  at = "pre": a
\* return before the try block; "try": a return inside it; "catch": the body
\* did not parse; "go": the pipeline starts.
PrecheckSkipsCredentials(v, r, e) ==
    IF r.method = "OPTIONS"
    THEN [at |-> "pre", res |-> OkText]
    ELSE IF v # "supabase" /\ r.method # "POST"
    THEN [at |-> "pre", res |-> ErrorResponse(405, MethodNotAllowed)]
    ELSE IF ~BodyParses(r)
    THEN [at |-> "catch", res |-> ErrorResponse(500, BodyParseError)]
    ELSE IF v # "supabase" /\ MissingFields(v, r)
    THEN [at |-> "try", res |-> ErrorResponse(400, MissingInput)]
    ELSE IF v = "supabase" /\ (r.imageBase64 = "" \/ r.audioUrl = "")
    THEN [at |-> "try", res |-> ErrorResponse(400, MissingInput)]
    ELSE [at |-> "go", res |-> NoResponse]
Precheck(v, r, e) ==
    IF IsPreflight(r)
    THEN [at |-> "pre", res |-> OkText]
    ELSE IF v # "supabase" /\ r.method # "POST"
    THEN [at |-> "pre", res |-> ErrorResponse(405, MethodNotAllowed)]
    ELSE IF ~BodyParses(r)
    THEN [at |-> "catch", res |-> ErrorResponse(500, BodyParseError)]
    ELSE IF v # "supabase" /\ e.HEYGEN_API_KEY = ""
    THEN [at |-> "try", res |-> ErrorResponse(500, KeyNotConfigured)]
    ELSE IF v = "blob" /\ e.BLOB_READ_WRITE_TOKEN = ""
    THEN [at |-> "try", res |-> ErrorResponse(500, BlobNotConfigured)]
    ELSE IF MissingFields(v, r)
    THEN [at |-> "try", res |-> ErrorResponse(400, MissingInput)]
    ELSE [at |-> "go", res |-> NoResponse]

\* finally { if (publicAudioUrl) ... }: the blob handler's cleanup runs for
\* whatever Response res the try/catch produced.
CleanupOnSuccessOnly(url, res) == url # "" /\ res.status = 200
CleanupAlways(url, res) == TRUE
CleanupRuns(url, res) == url # ""

\* try { await del(...) } catch (cleanupError) { console.error(...) }: the
\* Response of the try/catch block is what the handler returns.
EscalateCleanupFailure(res, delOk) ==
    IF delOk THEN res ELSE Uncaught(<<"BlobError">>)
AfterCleanup(res, delOk) == res

\* while (status !== 'succeeded' && attempt < maxAttempts)
LoopContinuesOffByOne(st, att) == st # "succeeded" /\ att <= maxAttempts
LoopContinues(st, att) == st # "succeeded" /\ att < maxAttempts

\* attempt++
NextAttemptSkips(a) == a + 2
NextAttempt(a) == a + 1

\* What one status response makes the loop body do.
CheckOutcomeIgnoresFailed(r) ==
    IF ~r.ok THEN "throw_check"
    ELSE IF r.status = "succeeded" THEN "break"
    ELSE "sleep"
CheckOutcomeRetriesNotOk(r) ==
    IF ~r.ok THEN "sleep"
    ELSE IF r.status = "succeeded" THEN "break"
    ELSE IF r.status = "failed" THEN "throw_failed"
    ELSE "sleep"
CheckOutcomeUnnamedIsFailure(r) ==
    IF ~r.ok THEN "throw_check"
    ELSE IF r.status = "succeeded" THEN "break"
    ELSE IF r.status \notin {"processing", "pending"} THEN "throw_failed"
    ELSE "sleep"
CheckOutcome(r) ==
    IF ~r.ok THEN "throw_check"
    ELSE IF r.status = "succeeded" THEN "break"
    ELSE IF r.status = "failed" THEN "throw_failed"
    ELSE "sleep"

\* videoUrl = data.data.video_url
CapturedStale(r, old) == old
Captured(r, old) == r.video_url

\* The code after the loop: if (status !== 'succeeded') throw ...; return videoUrl
AfterLoopNoCheck(st, url) == Returned(url)
AfterLoop(st, url) ==
    IF st # "succeeded" THEN Threw(TimeoutError) ELSE Returned(url)

(***************************************************************************)
(* How a handler leaves                                                    *)
(***************************************************************************)
\* A return before the try block.
Deliver(res) ==
    /\ result' = res
    /\ response' = res
    /\ pc' = "done"

\* A return from the try or the catch block: the blob handler's finally block
\* comes first.
LeaveDeliversFirst(res) ==
    /\ result' = res
    /\ response' = res
    /\ pc' = IF variant = "blob" THEN "finally" ELSE "done"
Leave(res) ==
    /\ result' = res
    /\ IF variant = "blob"
       THEN pc' = "finally" /\ response' = response
       ELSE pc' = "done" /\ response' = res

\* catch (error) { console.error(...); return 500 { error: error.message } }
CatchHidesMessageOnSupabase(msg) ==
    /\ logs' = Append(logs, <<"Error in function">> \o msg)
    /\ Leave(ErrorResponse(500, IF variant = "supabase"
                                THEN <<"Internal Server Error">> ELSE msg))
CatchRethrows(msg) ==
    /\ logs' = Append(logs, <<"Error in function">> \o msg)
    /\ Leave(Uncaught(msg))
CatchRetries(msg) ==
    /\ logs' = logs
    /\ UNCHANGED <<pc, result, response>>
Catch(msg) ==
    /\ logs' = Append(logs, <<"Error in function">> \o msg)
    /\ Leave(ErrorResponse(500, msg))

\* pollVideoStatus has completed with outcome p: the handler answers.
PollCompletes(p) ==
    /\ pollResult' = p
    /\ IF p.kind = "returned"
       THEN Leave(VideoResponse(p.value[1])) /\ logs' = logs
       ELSE Catch(p.value)

(***************************************************************************)
(* Steps                                                                   *)
(***************************************************************************)
Init ==
    /\ variant \in Variants
    /\ req \in Requests
    /\ env \in Envs
    /\ pc = "start"
    /\ publicAudioUrl = ""
    /\ avatarId = ""
    /\ videoId = ""
    /\ attempt = 0
    /\ status = ""
    /\ videoUrl = ""
    /\ lastResp = NoStatusResponse
    /\ pollResult = NoPoll
    /\ sleeps = 0
    /\ calls = <<>>
    /\ logs = <<>>
    /\ store = {}
    /\ result = NoResponse
    /\ response = NoResponse
    /\ failed = <<>>
    /\ app = AppIdle
    /\ now = 0
    /\ inv = <<>>
    /\ randomSuffix = FALSE

\* The handler up to its first network call.
HandlerEntry ==
    /\ pc = "start"
    /\ UNCHANGED <<failed, app, now, inv, randomSuffix>>
    /\ LET d == Precheck(variant, req, env) IN
         CASE d.at = "pre" -> Deliver(d.res) /\ logs' = logs
           [] d.at = "try" -> Leave(d.res) /\ logs' = logs
           [] d.at = "catch" -> Catch(d.res.body)
           [] d.at = "go" ->
                /\ pc' = FirstStep(variant)
                /\ UNCHANGED <<result, response, logs>>
    /\ UNCHANGED <<variant, req, env, publicAudioUrl, avatarId, videoId, attempt,
                   status, videoUrl, lastResp, pollResult, sleeps, calls, store>>

\* Step 0 of the blob handler: put(name, audioBuffer, {access: 'public'}).
PutAudio ==
    /\ pc = "upload"
    /\ UNCHANGED <<app, now, inv, randomSuffix>>
    /\ calls' = Append(calls, <<"put", BufferFrom(req.audioBase64)>>)
    /\ \/ \E u \in BlobUrls :
            /\ publicAudioUrl' = u
            /\ store' = store \cup {u}
            /\ pc' = "avatar"
            /\ UNCHANGED <<result, response, logs, failed>>
       \/ \E t \in ErrTexts :
            /\ UNCHANGED <<publicAudioUrl, store>>
            /\ failed' = <<"put", t>>
            /\ Catch(UploadError(t))
    /\ UNCHANGED <<variant, req, env, avatarId, videoId, attempt, status,
                   videoUrl, lastResp, pollResult, sleeps>>

\* Step 1: POST /avatar/from_image.
CreateAvatar ==
    /\ pc = "avatar"
    /\ UNCHANGED <<app, now, inv, randomSuffix>>
    /\ calls' = Append(calls,
                  <<"avatar", req.imageBase64, ApiKeyOf(variant, req, env)>>)
    /\ \/ \E a \in AvatarIds :
            /\ avatarId' = a
            /\ pc' = "video"
            /\ UNCHANGED <<result, response, logs, failed>>
       \/ \E t \in ErrTexts :
            /\ avatarId' = avatarId
            /\ failed' = <<"avatar", t>>
            /\ Catch(AvatarError(t))
    /\ UNCHANGED <<variant, req, env, publicAudioUrl, videoId, attempt, status,
                   videoUrl, lastResp, pollResult, sleeps, store>>

\* The audio_url of the video/generate body.
AudioUrlSentFromRequest == req.audioUrl
AudioUrlSent == IF variant = "blob" THEN publicAudioUrl ELSE req.audioUrl

\* Step 2: POST /video/generate; on success pollVideoStatus is entered.
GenerateVideo ==
    /\ pc = "video"
    /\ UNCHANGED <<app, now, inv, randomSuffix>>
    /\ calls' = Append(calls, <<"video", avatarId, AudioUrlSent>>)
    /\ \/ \E v \in VideoIds :
            /\ videoId' = v
            /\ pc' = "poll"
            /\ UNCHANGED <<result, response, logs, failed>>
       \/ \E t \in ErrTexts :
            /\ videoId' = videoId
            /\ failed' = <<"video", t>>
            /\ Catch(VideoGenError(t))
    /\ UNCHANGED <<variant, req, env, publicAudioUrl, avatarId, attempt, status,
                   videoUrl, lastResp, pollResult, sleeps, store>>

\* One pass of the loop body up to the wait: attempt++, the status call, and
\* the branches on its answer.
StatusCheck ==
    /\ pc = "poll"
    /\ UNCHANGED <<failed, app, now, inv, randomSuffix>>
    /\ attempt' = NextAttempt(attempt)
    /\ calls' = Append(calls, <<"status", videoId>>)
    /\ \E r \in StatusResponses :
         /\ lastResp' = r
         /\ LET o == CheckOutcome(r) IN
              CASE o = "throw_check" ->
                     /\ UNCHANGED <<status, videoUrl>>
                     /\ PollCompletes(Threw(StatusCheckError(r)))
                [] o = "break" ->
                     /\ status' = r.status
                     /\ videoUrl' = Captured(r, videoUrl)
                     /\ PollCompletes(AfterLoop(r.status, Captured(r, videoUrl)))
                [] o = "throw_failed" ->
                     /\ status' = r.status
                     /\ videoUrl' = videoUrl
                     /\ PollCompletes(Threw(JobFailedError(r)))
                [] o = "sleep" ->
                     /\ status' = IF r.ok THEN r.status ELSE status
                     /\ videoUrl' = videoUrl
                     /\ pc' = "sleep"
                     /\ UNCHANGED <<pollResult, result, response, logs>>
    /\ UNCHANGED <<variant, req, env, publicAudioUrl, avatarId, videoId, sleeps,
                   store>>

\* await new Promise(resolve => setTimeout(resolve, 10000)), then the loop
\* condition, then (when it is false) the code after the loop.
SleepSkipsLastWait ==
    /\ pc = "sleep"
    /\ UNCHANGED <<failed, app, now, inv, randomSuffix>>
    /\ sleeps' = IF attempt < maxAttempts THEN sleeps + 1 ELSE sleeps
    /\ IF LoopContinues(status, attempt)
       THEN /\ pc' = "poll"
            /\ UNCHANGED <<pollResult, result, response, logs>>
       ELSE PollCompletes(AfterLoop(status, videoUrl))
    /\ UNCHANGED <<variant, req, env, publicAudioUrl, avatarId, videoId, attempt,
                   status, videoUrl, lastResp, calls, store>>
Sleep ==
    /\ pc = "sleep"
    /\ UNCHANGED <<failed, app, now, inv, randomSuffix>>
    /\ sleeps' = sleeps + 1
    /\ IF LoopContinues(status, attempt)
       THEN /\ pc' = "poll"
            /\ UNCHANGED <<pollResult, result, response, logs>>
       ELSE PollCompletes(AfterLoop(status, videoUrl))
    /\ UNCHANGED <<variant, req, env, publicAudioUrl, avatarId, videoId, attempt,
                   status, videoUrl, lastResp, calls, store>>

\* Step 4, the finally block of the blob handler: with a staged URL it calls
\* del(publicAudioUrl), whose failure is caught and logged.  The block ends
\* with the Response of the try/catch, unless an error escapes it.
FinallyBlock ==
    IF CleanupRuns(publicAudioUrl, result)
    THEN /\ calls' = Append(calls, <<"del", publicAudioUrl>>)
         /\ \E delOk \in BOOLEAN :
              /\ store' = IF delOk THEN store \ {publicAudioUrl} ELSE store
              /\ logs' = IF delOk THEN logs
                         ELSE Append(logs, <<"Failed to clean up audio blob">>)
              /\ response' = AfterCleanup(result, delOk)
    ELSE /\ response' = result
         /\ UNCHANGED <<calls, store, logs>>

Finally ==
    /\ pc = "finally"
    /\ UNCHANGED <<failed, app, now, inv, randomSuffix>>
    /\ FinallyBlock
    /\ pc' = "done"
    /\ UNCHANGED <<variant, req, env, publicAudioUrl, avatarId, videoId, attempt,
                   status, videoUrl, lastResp, pollResult, sleeps, result>>

Next ==
    \/ HandlerEntry
    \/ PutAudio
    \/ CreateAvatar
    \/ GenerateVideo
    \/ StatusCheck
    \/ Sleep
    \/ Finally

Spec == Init /\ [][Next]_vars

\* The same handler when every call it awaits resolves or rejects: a step
\* that is due is eventually taken.
LiveSpec ==
    /\ Spec
    /\ WF_vars(StatusCheck)
    /\ WF_vars(Sleep)

(***************************************************************************)
(* The cleanup block on its own: the finally block of the blob handler run *)
(* any number of times for one publicAudioUrl ("" when the upload failed), *)
(* whatever Vercel Blob still holds and whatever the try/catch returned.   *)
(***************************************************************************)
MaxUnstage == 2

TryCatchResponses ==
    {VideoResponse(u) : u \in VideoUrls}
    \cup {ErrorResponse(500, TimeoutError)}
    \cup {ErrorResponse(500, UploadError(t)) : t \in ErrTexts}

UnstageInit ==
    /\ variant = "blob"
    /\ req = [method |-> "POST", wellFormed |-> TRUE, imageBase64 |-> "IMG64",
              audioUrl |-> "", audioBase64 |-> "QVVE", apiKey |-> ""]
    /\ env = [HEYGEN_API_KEY |-> "KEY", BLOB_READ_WRITE_TOKEN |-> "KEY"]
    /\ pc = "unstage"
    /\ publicAudioUrl \in BlobUrls \cup {""}
    /\ store \in SUBSET BlobUrls
    /\ result \in TryCatchResponses
    /\ avatarId = ""
    /\ videoId = ""
    /\ attempt = 0
    /\ status = ""
    /\ videoUrl = ""
    /\ lastResp = NoStatusResponse
    /\ pollResult = NoPoll
    /\ sleeps = 0
    /\ calls = <<>>
    /\ logs = <<>>
    /\ response = NoResponse
    /\ failed = <<>>
    /\ app = AppIdle
    /\ now = 0
    /\ inv = <<>>
    /\ randomSuffix = FALSE

\* One more run of the finally block.
Unstage ==
    /\ pc = "unstage"
    /\ UNCHANGED <<failed, app, now, inv, randomSuffix>>
    /\ NCalls("del") < MaxUnstage
    /\ FinallyBlock
    /\ UNCHANGED <<variant, req, env, pc, publicAudioUrl, avatarId, videoId,
                   attempt, status, videoUrl, lastResp, pollResult, sleeps,
                   result>>

UnstageNext == Unstage

UnstageSpec == UnstageInit /\ [][UnstageNext]_vars

(***************************************************************************)
(* The browser client (App): handleGenerateAudio, startGeneration and      *)
(* generateHeyGenVideo with its progress ticker, posting to the backend    *)
(* function configured as supabaseUrl.  The backend is one of the handlers *)
(* that read the body the client sends: {imageBase64, audioUrl, apiKey}.   *)
(***************************************************************************)
\* POLLING_MESSAGES.HEYGEN
HeygenMessages ==
    <<"Contacting secure backend...",
      "Backend is creating host avatar...",
      "Backend is generating video...",
      "Backend is polling for completion...",
      "Almost there, finalizing video...",
      "Your HeyGen video is ready!">>

Min(a, b) == IF a < b THEN a ELSE b

\* URL.createObjectURL(wavBlob): an object URL of the page.
CreateObjectURL(blob) == "blob:local/a"

\* progress = Math.min(progress + 5, 95)
TickProgressUncapped(p) == Min(p + 5, 100)
TickProgress(p) == Min(p + 5, 95)

\* Math.floor(progress / (100 / (POLLING_MESSAGES.HEYGEN.length - 1))),
\* counted from 0 as in the source
MsgIndexRoundsUp(p) == (p + 19) \div 20
MsgIndex(p) == p \div (100 \div (Len(HeygenMessages) - 1))

\* Whether the interval is still set once the fetch has resolved or rejected:
\* clearInterval runs after the await and in the catch block.
\* how the fetch ended: "ok", "not_ok" (resolved, response.ok false),
\* "unreadable" (response.json() rejected), "rejected".
TickerLeftOnAfterReject(how) == how = "rejected"
TickerAfter(how) == FALSE

\* The request nobody has sent yet.
NoRequest ==
    [method |-> "POST", wellFormed |-> FALSE, imageBase64 |-> "",
     audioUrl |-> "", audioBase64 |-> "", apiKey |-> ""]

ClientInit ==
    /\ variant \in {"url", "supabase"}
    /\ env \in Envs
    /\ req = NoRequest
    /\ pc = "idle"
    /\ publicAudioUrl = ""
    /\ avatarId = ""
    /\ videoId = ""
    /\ attempt = 0
    /\ status = ""
    /\ videoUrl = ""
    /\ lastResp = NoStatusResponse
    /\ pollResult = NoPoll
    /\ sleeps = 0
    /\ calls = <<>>
    /\ logs = <<>>
    /\ store = {}
    /\ result = NoResponse
    /\ response = NoResponse
    /\ failed = <<>>
    /\ app = AppIdle
    /\ now = 0
    /\ inv = <<>>
    /\ randomSuffix = FALSE

handlerVars ==
    <<variant, env, publicAudioUrl, avatarId, videoId, attempt, status,
      videoUrl, lastResp, pollResult, sleeps, calls, logs, store, result,
      response, failed, now, inv, randomSuffix>>

\* COST_PER_SECOND, in hundredths of a credit
CostPerSecond(engine) == IF engine = "VEO" THEN 20 ELSE 25

\* updateCost
UpdateCost(a) ==
    IF a.generatedAudioUrl # "" /\ a.audioDuration > 0
    THEN a.audioDuration * CostPerSecond(a.videoEngine)
    ELSE 0

\* The pre-checks of startGeneration that depend on the state kept here: the
\* audio and the credits (the key and both images are in place).
PreChecksIgnoreCredits(a) == a.generatedAudioUrl # ""
PreChecksPass(a) == a.generatedAudioUrl # "" /\ ~(a.credits < a.estimatedCost)

\* startGeneration after its pre-checks: the flag, the progress, the cleared
\* result; estimatedCost is the value of this render, kept by the closure.
Started(a) ==
    [a EXCEPT !.isGenerating = TRUE,
              !.generationProgress = 5,
              !.resultVideoUrl = "",
              !.cost = a.estimatedCost,
              !.generation = @ + 1]

\* The end of the try block, then the finally block: the result, the history
\* item, the credits, the flag.
Succeeded(a, url) ==
    [a EXCEPT !.phase = "returned",
              !.resultVideoUrl = url,
              !.history = <<url>> \o @,
              !.credits = @ - a.cost,
              !.isGenerating = FALSE]

\* The catch block, then the finally block.
FailedStillCharges(a, msg) ==
    [a EXCEPT !.phase = "threw", !.thrown = msg, !.credits = @ - a.cost,
              !.isGenerating = FALSE]
FailedKeepsFlag(a, msg) ==
    [a EXCEPT !.phase = "threw", !.thrown = msg]
Failed(a, msg) ==
    [a EXCEPT !.phase = "threw", !.thrown = msg, !.isGenerating = FALSE]

\* handleGenerateAudio, when the TTS call returned audio: the WAV blob gets an
\* object URL, kept as generatedAudioUrl.
HandleGenerateAudio ==
    /\ app.phase = "idle"
    /\ app.generatedAudioUrl = ""
    /\ app' = [app EXCEPT !.generatedAudioUrl = CreateObjectURL("wav")]
    /\ UNCHANGED <<handlerVars, req, pc>>

\* startGeneration with the HeyGen engine, all its pre-checks passed, up to
\* the fetch of generateHeyGenVideo: the ticker is set and the POST is sent.
StartGeneration ==
    /\ app.phase = "idle"
    /\ app.videoEngine = "HEYGEN"
    /\ PreChecksPass(app)
    /\ pc = "idle"
    /\ app' = [Started(app) EXCEPT !.phase = "fetching",
                                   !.generationMessage = HeygenMessages[1],
                                   !.progress = 5,
                                   !.ticker = TRUE]
    /\ req' = [method |-> "POST", wellFormed |-> TRUE, imageBase64 |-> "IMG64",
               audioUrl |-> app.generatedAudioUrl, audioBase64 |-> "",
               apiKey |-> "KEY"]
    /\ pc' = "start"
    /\ UNCHANGED handlerVars

\* One firing of the setInterval callback.
TickAborts ==
    /\ app.ticker
    /\ app' = [app EXCEPT !.phase = "threw", !.ticker = FALSE,
                          !.thrown = <<"Timed out">>, !.isGenerating = FALSE]
    /\ UNCHANGED <<handlerVars, req, pc>>
Tick ==
    /\ app.ticker
    /\ LET p == TickProgress(app.progress) IN
         app' = [app EXCEPT !.progress = p,
                            !.generationProgress = p,
                            !.generationMessage = HeygenMessages[MsgIndex(p) + 1]]
    /\ UNCHANGED <<handlerVars, req, pc>>

\* startGeneration's catch and finally after generateHeyGenVideo threw.
ClientThrows(how, msg) ==
    app' = [Failed(app, msg) EXCEPT !.ticker = TickerAfter(how),
                                    !.fetch = how]

\* The fetch resolves with the handler's Response: clearInterval, then the
\* branches on response.ok and on response.json().
FetchResolves ==
    /\ app.phase = "fetching"
    /\ pc = "done"
    /\ \E readable \in BOOLEAN :
         IF ~readable
         THEN ClientThrows("unreadable", <<"SyntaxError">>)
         ELSE IF response.status # 200
         THEN ClientThrows("not_ok",
                  IF response.body = <<>> THEN <<"Backend request failed.">>
                  ELSE response.body)
         ELSE app' = [Succeeded(app, response.body[1])
                        EXCEPT !.ticker = TickerAfter("ok"),
                               !.fetch = "ok",
                               !.generationProgress = 100,
                               !.generationMessage =
                                   HeygenMessages[Len(HeygenMessages)]]
    /\ UNCHANGED <<handlerVars, req, pc>>

\* The fetch rejects (the network fails, the platform drops the connection):
\* the catch block clears the interval and rethrows.
FetchRejects ==
    /\ app.phase = "fetching"
    /\ ClientThrows("rejected", <<"TypeError: Failed to fetch">>)
    /\ UNCHANGED <<handlerVars, req, pc>>

ClientNext ==
    \/ HandleGenerateAudio
    \/ StartGeneration
    \/ Tick
    \/ FetchResolves
    \/ FetchRejects
    \/ HandlerEntry
    \/ CreateAvatar
    \/ GenerateVideo
    \/ StatusCheck
    \/ Sleep

ClientSpec == ClientInit /\ [][ClientNext]_vars

(***************************************************************************)
(* The two polling loops of the repository side by side: the client's Veo  *)
(* branch of startGeneration, polling the video operation itself, and      *)
(* pollVideoStatus inside the handler the HeyGen branch posts to.  Every   *)
(* awaited call resolves or rejects, so a step that is due is taken.       *)
(***************************************************************************)
\* POLLING_MESSAGES.VEO
VeoMessages ==
    <<"Warming up the Veo studio...",
      "Generating visual assets...",
      "Animating hosts with AI...",
      "Syncing dialogue and motion...",
      "Adding final touches...",
      "Rendering video, this can take a few minutes...">>

\* progress = Math.min(progress + 7, 95)
VeoProgress(p) == Min(p + 7, 95)

\* if (progress > (msgIndex + 1) * 15 && msgIndex < POLLING_MESSAGES.VEO.length - 1)
\*     msgIndex++
VeoMsgIndex(p, m) ==
    IF p > (m + 1) * 15 /\ m < Len(VeoMessages) - 1 THEN m + 1 ELSE m

\* while (!operation.done)
VeoLoopContinues(done, p) == ~done

PollingInit ==
    /\ variant \in {"url", "supabase"}
    /\ env = [HEYGEN_API_KEY |-> "KEY", BLOB_READ_WRITE_TOKEN |-> ""]
    /\ req = NoRequest
    /\ pc = "idle"
    /\ publicAudioUrl = ""
    /\ avatarId = ""
    /\ videoId = ""
    /\ attempt = 0
    /\ status = ""
    /\ videoUrl = ""
    /\ lastResp = NoStatusResponse
    /\ pollResult = NoPoll
    /\ sleeps = 0
    /\ calls = <<>>
    /\ logs = <<>>
    /\ store = {}
    /\ result = NoResponse
    /\ response = NoResponse
    /\ failed = <<>>
    /\ \E e \in {"HEYGEN", "VEO"} :
         app = [AppIdle EXCEPT !.videoEngine = e,
                               !.generatedAudioUrl = CreateObjectURL("wav")]
    /\ now = 0
    /\ inv = <<>>
    /\ randomSuffix = FALSE

\* startGeneration with the Veo engine, all its pre-checks passed, up to the
\* call of ai.models.generateVideos.
VeoStart ==
    /\ app.phase = "idle"
    /\ app.videoEngine = "VEO"
    /\ PreChecksPass(app)
    /\ app' = [Started(app) EXCEPT !.phase = "veo_start",
                                   !.generationMessage = VeoMessages[1]]
    /\ UNCHANGED <<handlerVars, req, pc>>

\* generateVideos resolves with an operation, or rejects.
VeoOperation ==
    /\ app.phase = "veo_start"
    /\ \/ \E done \in BOOLEAN :
            app' = [app EXCEPT !.phase = IF VeoLoopContinues(done, 10)
                                         THEN "veo_wait" ELSE "veo_done",
                               !.progress = 10,
                               !.generationProgress = 10,
                               !.msgIndex = 1,
                               !.generationMessage = VeoMessages[2]]
       \/ app' = Failed(app, <<"generateVideos failed">>)
    /\ UNCHANGED <<handlerVars, req, pc>>

\* A pass of the loop begins: await new Promise(... setTimeout(resolve, 10000)).
VeoWait ==
    /\ app.phase = "veo_wait"
    /\ app' = [app EXCEPT !.phase = "veo_polling"]
    /\ UNCHANGED <<handlerVars, req, pc>>

\* The rest of the pass: getVideosOperation, the progress and the message,
\* then the loop condition.
VeoPoll ==
    /\ app.phase = "veo_polling"
    /\ \/ \E done \in BOOLEAN :
            LET p == VeoProgress(app.progress)
                m == VeoMsgIndex(p, app.msgIndex) IN
              app' = [app EXCEPT !.phase = IF VeoLoopContinues(done, p)
                                           THEN "veo_wait" ELSE "veo_done",
                                 !.progress = p,
                                 !.generationProgress = p,
                                 !.msgIndex = m,
                                 !.generationMessage =
                                     IF m # app.msgIndex THEN VeoMessages[m + 1]
                                     ELSE app.generationMessage]
       \/ app' = Failed(app, <<"getVideosOperation failed">>)
    /\ UNCHANGED <<handlerVars, req, pc>>

\* After the loop: the download link, the download, then the result, the
\* history item and the credits; or the throw, the catch and the finally.
VeoFinish ==
    /\ app.phase = "veo_done"
    /\ \/ app' = [Succeeded(app, CreateObjectURL("mp4"))
                    EXCEPT !.generationProgress = 100,
                           !.generationMessage = "Video generated successfully!"]
       \/ app' = [Failed(app, <<"Failed to get video download link.">>)
                    EXCEPT !.generationProgress = 100,
                           !.generationMessage = "Video generated successfully!"]
    /\ UNCHANGED <<handlerVars, req, pc>>

PollingNext ==
    \/ StartGeneration
    \/ Tick
    \/ FetchResolves
    \/ HandlerEntry
    \/ CreateAvatar
    \/ GenerateVideo
    \/ StatusCheck
    \/ Sleep
    \/ VeoStart
    \/ VeoOperation
    \/ VeoWait
    \/ VeoPoll
    \/ VeoFinish

PollingSpec ==
    /\ PollingInit
    /\ [][PollingNext]_vars
    /\ WF_vars(StartGeneration)
    /\ WF_vars(FetchResolves)
    /\ WF_vars(HandlerEntry)
    /\ WF_vars(CreateAvatar)
    /\ WF_vars(GenerateVideo)
    /\ WF_vars(StatusCheck)
    /\ WF_vars(Sleep)
    /\ WF_vars(VeoStart)
    /\ WF_vars(VeoOperation)
    /\ WF_vars(VeoWait)
    /\ WF_vars(VeoPoll)
    /\ WF_vars(VeoFinish)

(***************************************************************************)
(* The client's bookkeeping over several generations: credits, estimated   *)
(* cost, history and the isGenerating flag.  The backend is what the       *)
(* client sees of it: the Response of one fetch.  After a generation has   *)
(* ended the user may start the next one.                                  *)
(***************************************************************************)
MaxGenerations == 2

\* Balances the client may find in localStorage, in hundredths of a credit.
CreditBalances == {0, 400, InitialCredits}

\* audio.duration of the generated audio, in seconds.
AudioDurations == {12, 20}

\* The Responses a handler gives to the client's POST.
BackendResponses ==
    {VideoResponse(u) : u \in VideoUrls}
    \cup {ErrorResponse(400, MissingInput), ErrorResponse(500, TimeoutError)}

quietVars ==
    <<variant, env, publicAudioUrl, avatarId, videoId, attempt, status,
      videoUrl, lastResp, pollResult, sleeps, calls, logs, store, failed, now,
      inv, randomSuffix>>

GenerationInit ==
    /\ variant = "supabase"
    /\ env = [HEYGEN_API_KEY |-> "", BLOB_READ_WRITE_TOKEN |-> ""]
    /\ req = NoRequest
    /\ pc = "idle"
    /\ publicAudioUrl = ""
    /\ avatarId = ""
    /\ videoId = ""
    /\ attempt = 0
    /\ status = ""
    /\ videoUrl = ""
    /\ lastResp = NoStatusResponse
    /\ pollResult = NoPoll
    /\ sleeps = 0
    /\ calls = <<>>
    /\ logs = <<>>
    /\ store = {}
    /\ result = NoResponse
    /\ response = NoResponse
    /\ failed = <<>>
    /\ \E e \in {"HEYGEN", "VEO"}, c \in CreditBalances :
         app = [AppIdle EXCEPT !.videoEngine = e, !.credits = c]
    /\ now = 0
    /\ inv = <<>>
    /\ randomSuffix = FALSE

\* The audio element reports its duration: setAudioDuration, then updateCost.
LoadedMetadata ==
    /\ app.generatedAudioUrl # ""
    /\ app.audioDuration = 0
    /\ \E d \in AudioDurations :
         app' = [app EXCEPT !.audioDuration = d,
                            !.estimatedCost =
                                UpdateCost([app EXCEPT !.audioDuration = d])]
    /\ UNCHANGED <<handlerVars, req, pc>>

\* startGeneration stopped by its credit pre-check: the alert and the modal.
StartRefused ==
    /\ app.phase = "idle"
    /\ app.generatedAudioUrl # ""
    /\ app.credits < app.estimatedCost
    /\ app' = [app EXCEPT !.isBuyCreditsModalOpen = TRUE]
    /\ UNCHANGED <<handlerVars, req, pc>>

\* The backend function answers the POST.
BackendResponds ==
    /\ pc = "start"
    /\ \E r \in BackendResponses :
         /\ result' = r
         /\ response' = r
    /\ pc' = "done"
    /\ UNCHANGED <<quietVars, req, app>>

\* The user is back at the form after a generation has ended; the fetch of
\* that generation is gone.
Again ==
    /\ app.phase \in {"returned", "threw"}
    /\ app.generation < MaxGenerations
    /\ app' = [app EXCEPT !.phase = "idle", !.thrown = <<>>, !.fetch = "none",
                          !.progress = 0, !.msgIndex = 0]
    /\ req' = NoRequest
    /\ pc' = "idle"
    /\ result' = NoResponse
    /\ response' = NoResponse
    /\ UNCHANGED quietVars

GenerationNext ==
    \/ HandleGenerateAudio
    \/ LoadedMetadata
    \/ StartRefused
    \/ StartGeneration
    \/ Tick
    \/ BackendResponds
    \/ FetchResolves
    \/ FetchRejects
    \/ VeoStart
    \/ VeoOperation
    \/ VeoWait
    \/ VeoPoll
    \/ VeoFinish
    \/ Again

GenerationSpec == GenerationInit /\ [][GenerationNext]_vars

(***************************************************************************)
(* Concurrent invocations of the blob-staging handler.  Each invocation    *)
(* has its own publicAudioUrl; Date.now() and the Blob store are shared.   *)
(* The steps between the avatar creation and the finally block (video,     *)
(* polling) are the job, during which the provider fetches the audio.      *)
(* Whether put() appends a random suffix to the pathname is the default of *)
(* the @vercel/blob version in use, which the source does not pin.         *)
(***************************************************************************)
NInvocations == 2
MaxNow == 2

\* `podcast-audio-${Date.now()}.wav`
ObjectName(t) == <<"podcast-audio-", t, ".wav">>

\* audioBlob.url for invocation i's upload of the pathname.
BlobUrlOf(name, i, suffixed) ==
    IF suffixed THEN <<"https://blob/", name, i>> ELSE <<"https://blob/", name>>

\* name: `podgen-avatar-${Date.now()}`
AvatarName(t) == <<"podgen-avatar-", t>>

\* An invocation: its position, the object name it passed to put(), its
\* publicAudioUrl, the name it gave its avatar, and the step that threw.
InvStart ==
    [pc |-> "upload", name |-> <<>>, publicAudioUrl |-> "",
     avatarName |-> <<>>, threw |-> ""]

otherVars ==
    <<variant, req, env, pc, publicAudioUrl, avatarId, videoId, attempt,
      status, videoUrl, lastResp, pollResult, sleeps, logs, result, response,
      failed, app, calls>>

ConcurrentInit ==
    /\ variant = "blob"
    /\ env = [HEYGEN_API_KEY |-> "KEY", BLOB_READ_WRITE_TOKEN |-> "TOKEN"]
    /\ req = [method |-> "POST", wellFormed |-> TRUE, imageBase64 |-> "IMG64",
              audioUrl |-> "", audioBase64 |-> "QVVE", apiKey |-> ""]
    /\ pc = "upload"
    /\ publicAudioUrl = ""
    /\ avatarId = ""
    /\ videoId = ""
    /\ attempt = 0
    /\ status = ""
    /\ videoUrl = ""
    /\ lastResp = NoStatusResponse
    /\ pollResult = NoPoll
    /\ sleeps = 0
    /\ calls = <<>>
    /\ logs = <<>>
    /\ store = {}
    /\ result = NoResponse
    /\ response = NoResponse
    /\ failed = <<>>
    /\ app = AppIdle
    /\ now = 0
    /\ inv = [i \in 1..NInvocations |-> InvStart]
    /\ randomSuffix \in BOOLEAN

\* The clock moves on between two steps.
ClockAdvances ==
    /\ now < MaxNow
    /\ now' = now + 1
    /\ UNCHANGED <<otherVars, store, inv, randomSuffix>>

\* Step 0 of invocation i: put() under the name built from Date.now().
InvPutAudio(i) ==
    /\ inv[i].pc = "upload"
    /\ LET name == ObjectName(now)
           u    == BlobUrlOf(name, i, randomSuffix) IN
         \/ /\ store' = store \cup {u}
            /\ inv' = [inv EXCEPT ![i].pc = "avatar", ![i].name = name,
                                  ![i].publicAudioUrl = u]
         \/ /\ store' = store
            /\ inv' = [inv EXCEPT ![i].pc = "finally", ![i].name = name,
                                  ![i].threw = "put"]
    /\ UNCHANGED <<otherVars, now, randomSuffix>>

\* Step 1 of invocation i: POST /avatar/from_image under the name built from
\* Date.now(); a refusal throws.
InvCreateAvatar(i) ==
    /\ inv[i].pc = "avatar"
    /\ \E ok \in BOOLEAN :
         inv' = [inv EXCEPT ![i].avatarName = AvatarName(now),
                            ![i].pc = IF ok THEN "job" ELSE "finally",
                            ![i].threw = IF ok THEN "" ELSE "avatar"]
    /\ UNCHANGED <<otherVars, store, now, randomSuffix>>

\* Steps 2 and 3 of invocation i end, by a return or a throw.
InvJobEnds(i) ==
    /\ inv[i].pc = "job"
    /\ inv' = [inv EXCEPT ![i].pc = "finally"]
    /\ UNCHANGED <<otherVars, store, now, randomSuffix>>

\* The finally block of invocation i.
InvFinally(i) ==
    /\ inv[i].pc = "finally"
    /\ IF inv[i].publicAudioUrl # ""
       THEN \E delOk \in BOOLEAN :
                 store' = IF delOk THEN store \ {inv[i].publicAudioUrl}
                          ELSE store
       ELSE store' = store
    /\ inv' = [inv EXCEPT ![i].pc = "done"]
    /\ UNCHANGED <<otherVars, now, randomSuffix>>

ConcurrentNext ==
    \/ ClockAdvances
    \/ \E i \in 1..NInvocations : InvPutAudio(i)
    \/ \E i \in 1..NInvocations : InvCreateAvatar(i)
    \/ \E i \in 1..NInvocations : InvJobEnds(i)
    \/ \E i \in 1..NInvocations : InvFinally(i)

ConcurrentSpec == ConcurrentInit /\ [][ConcurrentNext]_vars

(***************************************************************************)
(* Properties                                                              *)
(***************************************************************************)
Staged == variant = "blob" /\ publicAudioUrl # ""
Pending(r) == r.ok /\ r.status \notin {"succeeded", "failed", "none"}
DelCalls == {i \in DOMAIN calls : calls[i][1] = "del"}

\* C1: in the blob handler, once the upload has succeeded, the handler
\* finishes (on any exit path) with exactly one del call, made for the staged
\* URL, and never makes more than one.
C1_ExactlyOneDeletion ==
    Staged =>
        /\ NCalls("del") <= 1
        /\ \A i \in DelCalls : calls[i] = <<"del", publicAudioUrl>>
        /\ (pc = "done" \/ response # NoResponse) => NCalls("del") = 1

\* C1 witness: the polling-timeout exit of a staged run, finished.
C1_Witness ==
    /\ Staged
    /\ pc = "done"
    /\ pollResult = Threw(TimeoutError)
    /\ NCalls("del") = 1

\* C2: pollVideoStatus never issues more than 30 status checks; it throws the
\* timeout error only after exactly 30; and when the 30th check is still
\* non-terminal, the timeout error is what follows the wait.
C2_TimeoutAfterExactly30 ==
    /\ NCalls("status") <= maxAttempts
    /\ pollResult = Threw(TimeoutError) =>
           /\ NCalls("status") = maxAttempts
           /\ attempt = maxAttempts
           /\ Pending(lastResp)
    /\ (attempt = maxAttempts /\ Pending(lastResp)) =>
           \/ pc = "sleep" /\ pollResult = NoPoll
           \/ pollResult = Threw(TimeoutError)

\* C2 witness: a run whose 30 checks were all non-terminal has timed out.
C2_Witness ==
    /\ pollResult = Threw(TimeoutError)
    /\ NCalls("status") = maxAttempts
    /\ result = ErrorResponse(500, TimeoutError)

\* C3: when check k answers failed, pollVideoStatus has ended at once: k
\* checks and k-1 waits were made, no further check or wait is possible, and
\* the error thrown is the job-failed error, carrying the provider's message
\* when it gave one.
C3_FailedStopsImmediately ==
    (lastResp.ok /\ lastResp.status = "failed") =>
        /\ pollResult = Threw(JobFailedError(lastResp))
        /\ lastResp.errorMessage # "" => pollResult.value[2] = lastResp.errorMessage
        /\ NCalls("status") = attempt
        /\ sleeps = attempt - 1
        /\ pc \in {"finally", "done"}
        /\ result = ErrorResponse(500, JobFailedError(lastResp))

\* C3 witness: the provider reports failed, with a message, on the 30th check.
C3_Witness ==
    /\ lastResp.ok
    /\ lastResp.status = "failed"
    /\ lastResp.errorMessage = "render error"
    /\ attempt = maxAttempts
    /\ pc = "done"

\* C4: when check N (N <= 30) answers succeeded, the handler's Response is
\* 200 with the video_url of that check, non-empty, after exactly N checks.
C4_SuccessReturnsVideoUrl ==
    (lastResp.ok /\ lastResp.status = "succeeded") =>
        /\ lastResp.video_url # ""
        /\ pollResult = Returned(lastResp.video_url)
        /\ result = VideoResponse(lastResp.video_url)
        /\ pc = "done" => response = VideoResponse(lastResp.video_url)
        /\ NCalls("status") = attempt
        /\ attempt <= maxAttempts
        /\ sleeps = attempt - 1

\* C4 witness: succeeded on the 30th check exactly, answered with its URL.
C4_Witness ==
    /\ lastResp.ok
    /\ lastResp.status = "succeeded"
    /\ attempt = maxAttempts
    /\ pc = "done"
    /\ response = VideoResponse("https://cdn/out2.mp4")

\* The request lacks the image or the audio input its handler reads.
MissingImageOrAudio ==
    \/ req.imageBase64 = ""
    \/ variant = "blob" /\ req.audioBase64 = ""
    \/ variant # "blob" /\ req.audioUrl = ""

\* A credential the handler requires is absent.
CredentialAbsent ==
    variant # "supabase" /\
        (env.HEYGEN_API_KEY = "" \/ (variant = "blob" /\ env.BLOB_READ_WRITE_TOKEN = ""))

\* C5 as stated: every POST with a readable body that lacks image or audio
\* ends in the validation error (400) with no network call, whatever the
\* configuration.
C5_Original ==
    (pc = "done" /\ req.method = "POST" /\ BodyParses(req) /\ MissingImageOrAudio) =>
        /\ response = ErrorResponse(400, MissingInput)
        /\ calls = <<>>

\* C5 amended: a request that lacks image or audio never causes a network
\* call; a POST with a readable body ends in the validation error (400) when
\* the handler's credentials are configured, and in the configuration error
\* (500) when one is absent.
C5_MissingInputNoNetwork ==
    MissingImageOrAudio =>
        /\ calls = <<>>
        /\ (pc = "done" /\ req.method = "POST" /\ BodyParses(req)) =>
              IF CredentialAbsent
              THEN /\ response.status = 500
                   /\ response.body \in {KeyNotConfigured, BlobNotConfigured}
              ELSE response = ErrorResponse(400, MissingInput)

\* C5 witness: a POST with the audio missing, credentials present, answered 400.
C5_Witness ==
    /\ pc = "done"
    /\ req.method = "POST"
    /\ req.imageBase64 # ""
    /\ MissingImageOrAudio
    /\ response = ErrorResponse(400, MissingInput)
    /\ calls = <<>>

\* C6: a completed pollVideoStatus either returned the video_url of a check
\* that parsed as succeeded, or threw; it never returns after any other
\* last status.
C6_NeverReturnsNonTerminal ==
    /\ pollResult.kind \in {"none", "returned", "threw"}
    /\ pollResult.kind = "returned" =>
           /\ status = "succeeded"
           /\ lastResp.ok /\ lastResp.status = "succeeded"
           /\ pollResult.value = <<lastResp.video_url>>
    /\ (pollResult.kind = "none" /\ pc \in {"finally", "done"}) => attempt = 0
    /\ (pollResult.kind # "none") => pc \in {"finally", "done"}

\* C6 witness: both completions after a non-terminal history: here the
\* return, following at least one processing answer.
C6_Witness ==
    /\ pollResult.kind = "returned"
    /\ sleeps >= 1

\* C7: when a status check answers non-2xx, pollVideoStatus has thrown the
\* status-check error at once: the check is not repeated, no wait follows and
\* no further check is made, whatever the attempts left.
C7_StatusCheckErrorImmediate ==
    ~lastResp.ok =>
        /\ pollResult = Threw(StatusCheckError(lastResp))
        /\ NCalls("status") = attempt
        /\ sleeps = attempt - 1
        /\ pc \in {"finally", "done"}
        /\ result = ErrorResponse(500, StatusCheckError(lastResp))

\* C7 witness: the second check fails, with 28 attempts left.
C7_Witness ==
    /\ ~lastResp.ok
    /\ attempt = 2
    /\ pc = "done"
    /\ NCalls("status") = 2

\* C8: a del call is made only by the blob handler and only for a URL that an
\* upload of this invocation returned: never after a rejection, a failed
\* upload, or in the handlers that take an audio URL.
C8_NoDeletionWithoutStaging ==
    /\ \A i \in DelCalls :
          /\ Staged
          /\ calls[i][2] = publicAudioUrl
          /\ \E j \in 1..(i - 1) : calls[j][1] = "put"
    /\ ~Staged => NCalls("del") = 0

\* C8 witness: the upload itself failed, and the handler finished with no del.
C8_Witness ==
    /\ variant = "blob"
    /\ NCalls("put") = 1
    /\ publicAudioUrl = ""
    /\ pc = "done"
    /\ NCalls("del") = 0

\* The Response the try/catch decided on: the poller's URL, or the first error
\* logged.
OutcomeBeforeCleanup(r) ==
    \/ r.kind = "video" /\ pollResult = Returned(r.body[1])
    \/ /\ r.kind = "error"
       /\ Len(logs) >= 1
       /\ logs[1] = <<"Error in function">> \o r.body

\* C9: after the del call, failed or not, the Response delivered is the one
\* the try/catch produced: the same success result or the same original
\* error; a del failure only adds a log line.
C9_CleanupFailureSwallowed ==
    (pc = "done" /\ NCalls("del") = 1) =>
        /\ response = result
        /\ OutcomeBeforeCleanup(response)

\* C9 witness: del failed and was logged; the success Response went out.
C9_Witness ==
    /\ pc = "done"
    /\ NCalls("del") = 1
    /\ logs # <<>>
    /\ logs[Len(logs)] = <<"Failed to clean up audio blob">>
    /\ publicAudioUrl \in store
    /\ response.kind = "video"

\* C10: however often the cleanup block runs for one handle, and also for
\* the empty handle of a failed upload, no error escapes it: the Response
\* stays the one of the try/catch, and the empty handle causes no del call.
C10_UnstageNeverRaises ==
    pc = "unstage" =>
        /\ response.kind # "uncaught"
        /\ response \in {NoResponse, result}
        /\ publicAudioUrl = "" => (calls = <<>> /\ logs = <<>>)
        /\ \A i \in DelCalls : calls[i] = <<"del", publicAudioUrl>>

\* C10 witness: the block ran twice on one handle; the first del removed the
\* object, the second del failed and was logged, and nothing was raised.
C10_Witness ==
    /\ pc = "unstage"
    /\ NCalls("del") = 2
    /\ publicAudioUrl \notin store
    /\ logs = <<<<"Failed to clean up audio blob">>>>
    /\ response = result

\* The calls of one kind, by position.
CallsOf(kind) == {i \in DOMAIN calls : calls[i][1] = kind}

\* C11: a refused upload, avatar creation or video submission ends the
\* pipeline: no later step's call is made, no status check is made, and the
\* Response is 500 with the error of that step carrying the refusal's raw
\* text; an error thrown by the poller is likewise the Response's error.
C11_FirstErrorAborts ==
    /\ failed # <<>> =>
          /\ pc \in {"finally", "done"}
          /\ pollResult = NoPoll
          /\ NCalls("status") = 0
          /\ NCalls(failed[1]) = 1
          /\ failed[1] = "put" =>
                /\ NCalls("avatar") = 0 /\ NCalls("video") = 0
                /\ result = ErrorResponse(500, UploadError(failed[2]))
          /\ failed[1] = "avatar" =>
                /\ NCalls("video") = 0
                /\ result = ErrorResponse(500, AvatarError(failed[2]))
                /\ result.body[2] = failed[2]
          /\ failed[1] = "video" =>
                /\ result = ErrorResponse(500, VideoGenError(failed[2]))
                /\ result.body[2] = failed[2]
          /\ pc = "done" => response = result
    /\ pollResult.kind = "threw" =>
          /\ failed = <<>>
          /\ result = ErrorResponse(500, pollResult.value)
          /\ pc \in {"finally", "done"}

\* C11 witness: the provider refuses the avatar with "invalid image"; the
\* handler has answered with that text and made no further provider call.
C11_Witness ==
    /\ failed = <<"avatar", "invalid image">>
    /\ pc = "done"
    /\ response.status = 500
    /\ response.body[2] = "invalid image"
    /\ NCalls("video") = 0

\* C12: a request whose verb is neither POST nor OPTIONS never causes a
\* network call, in any handler.
C12_OtherVerbsRejected ==
    req.method \notin {"POST", "OPTIONS"} =>
        /\ calls = <<>>
        /\ pc = "done" => response.kind = "error"

\* The request is a complete submission for a handler that reads the fields
\* it carries: POST, readable, image present, credentials present.
CompleteBut ==
    /\ req.method = "POST"
    /\ BodyParses(req)
    /\ req.imageBase64 # ""
    /\ ~CredentialAbsent
    /\ variant = "supabase" => req.apiKey # ""

C15_DurationExceedsBudget ==
    (variant # "supabase" /\ pollResult = Threw(TimeoutError)) =>
        sleeps * pollIntervalMs < maxDuration * 1000

C17_NoRetryOutsidePoller ==
    /\ NCalls("put") <= 1
    /\ NCalls("avatar") <= 1
    /\ NCalls("video") <= 1
    /\ failed # <<>> =>
          /\ NCalls(failed[1]) = 1
          /\ calls[Len(calls)][1] \in {failed[1], "del"}

\* C17 witness: the video submission was refused and the handler is done
\* after that single submission.
C17_Witness ==
    /\ failed # <<>>
    /\ failed[1] = "video"
    /\ pc = "done"
    /\ NCalls("video") = 1
    /\ NCalls("avatar") = 1

\* A URL the provider can fetch over the public internet.
PubliclyFetchable(u) == u \in BlobUrls \cup {"https://pub/a.wav"}

\* C13: the audio_url of every video submission is publicly fetchable, never
\* an object URL of the browser.
C13_AudioUrlPublic ==
    \A i \in CallsOf("video") : PubliclyFetchable(calls[i][3])

\* C18: while the ticker is set the progress shown is at most 95, and 100 is
\* shown only once the backend has answered 200 with a readable body.
C18_ProgressBelow100InFlight ==
    /\ app.ticker => (app.progress <= 95 /\ app.generationProgress <= 95)
    /\ app.phase = "fetching" =>
          (app.generationProgress >= 5 /\ app.generationProgress <= 95)
    /\ app.generationProgress = 100 =>
          /\ app.phase = "returned"
          /\ pc = "done"
          /\ response.status = 200
          /\ response.kind = "video"

\* C18 witness: the ticker has run up to its ceiling while the handler is
\* still polling.
C18_Witness ==
    /\ app.phase = "fetching"
    /\ app.ticker
    /\ app.generationProgress = 95
    /\ pc = "sleep"
    /\ attempt = 3

\* C19: once generateHeyGenVideo has returned or thrown the interval is
\* cleared, so no tick can change the progress or the message any more.
C19_TickerStoppedOnExit ==
    /\ app.phase \in {"returned", "threw"} => (~app.ticker /\ ~ENABLED Tick)
    /\ app.ticker => app.phase = "fetching"

\* C19 witness: the fetch rejected while the ticker had been advancing, and
\* the ticker is off.
C19_Witness ==
    /\ app.phase = "threw"
    /\ app.thrown = <<"TypeError: Failed to fetch">>
    /\ app.progress >= 10
    /\ ~app.ticker

\* C20: any two invocations upload under distinct object names, and the asset
\* of an invocation whose job is running is still in the store.
C20_StagedAssetsNotShared ==
    /\ \A i, j \in DOMAIN inv :
          (i # j /\ inv[i].name # <<>> /\ inv[j].name # <<>>)
             => inv[i].name # inv[j].name
    /\ \A i \in DOMAIN inv :
          inv[i].pc = "job" => inv[i].publicAudioUrl \in store

\* The place of a call in the pipeline.
Rank(kind) ==
    CASE kind = "put" -> 0
      [] kind = "avatar" -> 1
      [] kind = "video" -> 2
      [] kind = "status" -> 3
      [] kind = "del" -> 4

C22_SuccessOnlyOnSucceeded ==
    /\ result.kind = "video" =>
          /\ lastResp.ok
          /\ lastResp.status = "succeeded"
          /\ status = "succeeded"
          /\ pollResult.kind = "returned"
    /\ (lastResp.ok /\ lastResp.status # "succeeded") =>
          (result.kind # "video" /\ response.kind # "video"
             /\ pollResult.kind # "returned")

\* C22 witness: thirty 2xx answers, none of them succeeded, and the handler
\* has answered with an error.
C22_Witness ==
    /\ pc = "done"
    /\ attempt = maxAttempts
    /\ lastResp.ok
    /\ lastResp.status = "waiting"
    /\ response.kind = "error"

\* C23: a 2xx status answer whose status is neither succeeded nor failed
\* sends the loop to its 10 s wait with nothing returned or thrown; the wait
\* ends, and with fewer than 30 checks issued the loop goes on to the next
\* status check.
C23_PendingKeepsPolling ==
    [][ /\ (pc = "poll" /\ Pending(lastResp')) =>
              /\ pc' = "sleep"
              /\ status' = lastResp'.status
              /\ sleeps' = sleeps
              /\ UNCHANGED <<pollResult, result, response, videoUrl>>
        /\ pc = "sleep" =>
              /\ Pending(lastResp)
              /\ sleeps' = sleeps + 1
              /\ attempt < maxAttempts => pc' = "poll"
              /\ attempt >= maxAttempts => pc' \in {"done", "finally"} ]_vars

\* C23 witness: three checks answered processing, without a status field and
\* with an unnamed status; three waits done; the fourth check is due.
C23_Witness ==
    /\ pc = "poll"
    /\ attempt = 3
    /\ sleeps = 3
    /\ status = "waiting"
    /\ pollResult = NoPoll
    /\ sleeps * pollIntervalMs = 30000

\* C24: a POST ends with one Response, delivered once: either 200 with the
\* videoUrl, or a non-200 status with one error message; never an exception
\* that leaves the handler.
C24_OneStructuredResponse ==
    /\ pc # "done" => response = NoResponse
    /\ (pc = "done" /\ req.method = "POST") =>
          /\ response = result
          /\ response.kind \in {"video", "error"}
          /\ response.kind = "video" =>
                /\ response.status = 200
                /\ Len(response.body) = 1
                /\ response.body[1] \in VideoUrls
          /\ response.kind = "error" =>
                /\ response.status \in {400, 500}
                /\ response.body # <<>>
                /\ \A i \in DOMAIN response.body : response.body[i] \notin VideoUrls

\* C24 witness: the body of a POST did not parse, in the handler that has a
\* finally block, and the caller got the 500 of the catch block.
C24_Witness ==
    /\ pc = "done"
    /\ variant = "blob"
    /\ req.method = "POST"
    /\ ~req.wellFormed
    /\ response = ErrorResponse(500, BodyParseError)

\* C25: an OPTIONS request is answered 200 'ok' in one step, whatever its
\* body and the configuration are, with no call, no log line and nothing
\* stored.
C25_PreflightNoOp ==
    req.method = "OPTIONS" =>
        /\ pc \in {"start", "done"}
        /\ calls = <<>>
        /\ logs = <<>>
        /\ store = {}
        /\ failed = <<>>
        /\ pc = "done" => (response = OkText /\ result = OkText)

\* C25 witness: the pre-flight answered although the body is unreadable and
\* no credential is configured.
C25_Witness ==
    /\ req.method = "OPTIONS"
    /\ ~req.wellFormed
    /\ env.HEYGEN_API_KEY = ""
    /\ env.BLOB_READ_WRITE_TOKEN = ""
    /\ req.apiKey = ""
    /\ pc = "done"
    /\ response = OkText

\* What generateHeyGenVideo does with a backend response: a function of the
\* Response and of how the fetch ended, with no tick in it.
OutcomeOf(res, how) ==
    CASE how = "ok" -> [phase |-> "returned", url |-> res.body[1], thrown |-> <<>>]
      [] how = "not_ok" ->
           [phase |-> "threw", url |-> "",
            thrown |-> IF res.body = <<>> THEN <<"Backend request failed.">>
                       ELSE res.body]
      [] how = "unreadable" ->
           [phase |-> "threw", url |-> "", thrown |-> <<"SyntaxError">>]
      [] how = "rejected" ->
           [phase |-> "threw", url |-> "",
            thrown |-> <<"TypeError: Failed to fetch">>]
      [] OTHER -> [phase |-> "fetching", url |-> "", thrown |-> <<>>]

\* C26: once generateHeyGenVideo has ended, what it returned or threw is what
\* the backend response and the way the fetch ended determine, whatever
\* number of ticks fired; and a step of the client while the fetch is pending
\* changes nothing but the progress and the message shown.
C26_TickerDoesNotAffectOutcome ==
    /\ [](app.phase \in {"returned", "threw"} =>
            [phase |-> app.phase, url |-> app.resultVideoUrl,
             thrown |-> app.thrown] = OutcomeOf(response, app.fetch))
    /\ [][(app.ticker /\ app' # app /\ app'.fetch = app.fetch) =>
            /\ app'.phase = app.phase
            /\ app'.thrown = app.thrown
            /\ app'.resultVideoUrl = app.resultVideoUrl
            /\ app'.ticker = app.ticker
            /\ app'.isGenerating = app.isGenerating
            /\ UNCHANGED <<req, pc, response, result, calls>>]_vars

\* C26 witness: the video URL came back after the ticker had fired nine
\* times.
C26_Witness ==
    /\ app.phase = "returned"
    /\ app.progress = 50
    /\ app.resultVideoUrl = "https://cdn/out2.mp4"
    /\ response = VideoResponse("https://cdn/out2.mp4")

\* The place of a message in POLLING_MESSAGES.HEYGEN, counted from 0.
IndexOf(msg) == CHOOSE i \in 0..(Len(HeygenMessages) - 1) : HeygenMessages[i + 1] = msg

\* C27: while the ticker runs, the message shown is one of the list and not
\* its last; from tick to tick its index does not go down; the last message
\* is shown only after generateHeyGenVideo returned.
C27_MessageIndexForward ==
    /\ [](/\ app.phase \in {"fetching", "returned"} =>
               \E i \in 1..Len(HeygenMessages) : app.generationMessage = HeygenMessages[i]
          /\ app.ticker => IndexOf(app.generationMessage) < Len(HeygenMessages) - 1
          /\ app.generationMessage = HeygenMessages[Len(HeygenMessages)] =>
               (app.phase = "returned" /\ response.status = 200))
    /\ [][(app.ticker /\ app'.ticker) =>
            IndexOf(app'.generationMessage) >= IndexOf(app.generationMessage)]_vars

\* C27 witness: the ticker is at its ceiling and shows the fifth message.
C27_Witness ==
    /\ app.ticker
    /\ app.progress = 95
    /\ app.generationMessage = "Almost there, finalizing video..."
    /\ IndexOf(app.generationMessage) = 4

\* C28: any two avatar-creation calls carry different names.
C28_AvatarNamesUnique ==
    \A i, j \in DOMAIN inv :
        (i # j /\ inv[i].avatarName # <<>> /\ inv[j].avatarName # <<>>)
           => inv[i].avatarName # inv[j].avatarName

\* C30: when every status call and every wait returns, pollVideoStatus, once
\* entered, completes by a return or a throw, whatever the provider answers,
\* and never issues more than 30 status checks.
C30_PollerTerminates ==
    /\ [](attempt <= maxAttempts /\ NCalls("status") <= maxAttempts)
    /\ (pc = "poll" /\ attempt = 0) ~> (pollResult.kind \in {"returned", "threw"})
    /\ [](pollResult.kind \in {"returned", "threw"} => pc \notin {"poll", "sleep"})

\* C30 witness: the provider never named a terminal status, and the call has
\* completed after the 30th check.
C30_Witness ==
    /\ pollResult = Threw(TimeoutError)
    /\ attempt = maxAttempts
    /\ NCalls("status") = maxAttempts
    /\ lastResp.status = "pending"

\* A polling loop is running.
Polling == pc \in {"poll", "sleep"} \/ app.phase \in {"veo_wait", "veo_polling"}

\* C29: no polling loop runs for ever: the HeyGen pollVideoStatus loop and
\* the client's Veo loop, once entered, are eventually left, even when the
\* provider never reports a terminal state.
C29_EveryPollingLoopEnds ==
    /\ [](attempt <= maxAttempts)
    /\ Polling ~> ~Polling

\* C31: attempt is between 0 and 30 and is the number of status calls made
\* so far; it changes only in the step that makes a status call, by one.
C31_AttemptCountsStatusCalls ==
    /\ [](/\ attempt \in 0..maxAttempts
          /\ attempt = Cardinality(CallsOf("status"))
          /\ pc \in {"start", "upload", "avatar", "video"} => attempt = 0)
    /\ [][(attempt' # attempt \/ (calls' # calls /\ calls'[Len(calls')][1] = "status"))
            => /\ pc = "poll"
               /\ attempt' = attempt + 1
               /\ calls' = Append(calls, <<"status", videoId>>)]_vars

\* C31 witness: seventeen checks made, the eighteenth due.
C31_Witness ==
    /\ pc = "poll"
    /\ attempt = 17
    /\ Cardinality(CallsOf("status")) = 17

\* C32: between checks the waits done are as many as the checks answered; a
\* call that ended on check k by success, failure or a refused check waited
\* k-1 times; a call that timed out waited 30 times, the last wait after the
\* 30th check, 300 s in all.
C32_SleepsMatchPendingChecks ==
    /\ pc = "poll" => sleeps = attempt
    /\ pc = "sleep" => (sleeps = attempt - 1 /\ Pending(lastResp))
    /\ pollResult.kind # "none" =>
          IF pollResult = Threw(TimeoutError)
          THEN /\ sleeps = maxAttempts
               /\ attempt = maxAttempts
               /\ Pending(lastResp)
               /\ sleeps * pollIntervalMs = 300000
          ELSE /\ sleeps = attempt - 1
               /\ ~Pending(lastResp)

\* C32 witness: the fourth check answered succeeded, after three waits.
C32_Witness ==
    /\ pollResult.kind = "returned"
    /\ attempt = 4
    /\ sleeps = 3
    /\ sleeps * pollIntervalMs = 30000
    /\ lastResp.status = "succeeded"

\* C33: in the blob handler the del call is made only once the try/catch has
\* its Response, polling being over or an earlier step having thrown; never
\* between status checks; and the caller gets the Response only after the del
\* call of a staged run has been made.
C33_DeletionAfterPollingBeforeResponse ==
    variant = "blob" =>
        /\ pc \in {"upload", "avatar", "video", "poll", "sleep"} =>
              (NCalls("del") = 0 /\ response = NoResponse)
        /\ NCalls("del") >= 1 =>
              /\ result # NoResponse
              /\ pollResult.kind \in {"returned", "threw"} \/ failed # <<>>
              /\ calls[Len(calls)][1] = "del"
        /\ (response # NoResponse /\ publicAudioUrl # "") =>
              (NCalls("del") = 1 /\ pc = "done")
        /\ (pc = "finally" /\ publicAudioUrl # "") =>
              (NCalls("del") = 0 /\ response = NoResponse /\ result # NoResponse)

\* C33 witness: a status check was refused on the second check, the del call
\* followed, and the 500 went out.
C33_Witness ==
    /\ variant = "blob"
    /\ pc = "done"
    /\ attempt = 2
    /\ ~lastResp.ok
    /\ pollResult.kind = "threw"
    /\ calls[Len(calls)] = <<"del", publicAudioUrl>>
    /\ response.status = 500

\* A generation is running.
InGeneration ==
    app.phase \in {"fetching", "veo_start", "veo_wait", "veo_polling", "veo_done"}

\* C34: the step in which a generation returns its video URL takes the cost
\* off the credits and puts one item on the history; no other step changes
\* either, a generation that threw in particular; and a generation starts
\* only with credits of at least the estimated cost.
C34_ChargedOncePerVideo ==
    /\ [][/\ (app.phase # "returned" /\ app'.phase = "returned") =>
                /\ app'.resultVideoUrl # ""
                /\ app'.credits = app.credits - app.cost
                /\ app'.history = <<app'.resultVideoUrl>> \o app.history
          /\ ~(app.phase # "returned" /\ app'.phase = "returned") =>
                /\ app'.credits = app.credits
                /\ app'.history = app.history
          /\ app'.generation # app.generation =>
                /\ app'.generation = app.generation + 1
                /\ app.credits >= app.estimatedCost
                /\ app'.cost = app.estimatedCost]_vars
    /\ [](/\ app.credits >= 0
          /\ Len(app.history) <= app.generation
          /\ InGeneration => app.credits >= app.cost)

\* C34 witness: of two generations the first returned a video and was
\* charged 5.00 credits, the second threw and was not.
C34_Witness ==
    /\ app.generation = 2
    /\ app.phase = "threw"
    /\ Len(app.history) = 1
    /\ app.cost = 500
    /\ app.credits = InitialCredits - 500

\* C35: isGenerating is true exactly while a generation is running: it is
\* set by the start that passed the pre-checks and is false again once the
\* generation has returned or thrown.
C35_FlagSpansGeneration ==
    /\ [](app.isGenerating <=> InGeneration)
    /\ [][(~app.isGenerating /\ app'.isGenerating) =>
             /\ PreChecksPass(app)
             /\ app.phase = "idle"
             /\ app'.generation = app.generation + 1]_vars
    /\ [][(InGeneration /\ app'.phase \in {"returned", "threw"}) =>
             ~app'.isGenerating]_vars

\* C35 witness: the backend's answer could not be read, generateHeyGenVideo
\* threw, and the flag is down.
C35_Witness ==
    /\ app.phase = "threw"
    /\ app.fetch = "unreadable"
    /\ app.generation = 1
    /\ ~app.isGenerating

\* The calls of the part of the pipeline all three handlers have.
IsSharedCall(c) == c[1] \in {"avatar", "video", "status"}
SharedCalls == SelectSeq(calls, IsSharedCall)

\* The calls Steps 1 to 3 make for an image, a key, the audio URL handed to
\* the provider, the ids the provider returned ("" when it refused) and the
\* number of status answers; no handler variant enters.
ExpectedCalls(image, key, audio, aId, vId, n) ==
    <<<<"avatar", image, key>>>>
    \o (IF aId = "" THEN <<>> ELSE <<<<"video", aId, audio>>>>)
    \o (IF vId = "" THEN <<>> ELSE [i \in 1..n |-> <<"status", vId>>])

\* The Response Steps 1 to 3 end in, for the refusal of the avatar or the
\* video call (f), or else the last of n status answers (r).
ExpectedResponse(f, r, n) ==
    IF f # <<>> /\ f[1] = "avatar" THEN ErrorResponse(500, AvatarError(f[2]))
    ELSE IF f # <<>> /\ f[1] = "video" THEN ErrorResponse(500, VideoGenError(f[2]))
    ELSE IF ~r.ok THEN ErrorResponse(500, StatusCheckError(r))
    ELSE IF r.status = "succeeded" THEN VideoResponse(r.video_url)
    ELSE IF r.status = "failed" THEN ErrorResponse(500, JobFailedError(r))
    ELSE ErrorResponse(500, TimeoutError)

\* C36: whichever handler ran, once it has finished a pipeline that reached
\* the avatar call, its avatar, video and status calls and its Response are
\* those the image, the audio URL handed to the provider and the provider's
\* answers determine.
C36_VariantsAgreeOnSharedPipeline ==
    (pc = "done" /\ NCalls("avatar") = 1) =>
        /\ SharedCalls =
              ExpectedCalls(req.imageBase64, ApiKeyOf(variant, req, env),
                            AudioUrlSent, avatarId, videoId, attempt)
        /\ response = ExpectedResponse(failed, lastResp, attempt)
        /\ Pending(lastResp) => attempt = maxAttempts

\* C36 witness: the blob handler, whose pipeline has two calls more than the
\* others, ended in the provider's refusal of the video submission.
C36_Witness ==
    /\ variant = "blob"
    /\ pc = "done"
    /\ NCalls("put") = 1
    /\ NCalls("del") = 1
    /\ failed = <<"video", "rate limited">>
    /\ response = ErrorResponse(500, VideoGenError("rate limited"))
    /\ SharedCalls = <<<<"avatar", "IMG64", "KEY">>,
                       <<"video", "avatar_43", publicAudioUrl>>>>

====
